---- MODULE Spec2Model ----
(***************************************************************************)
(* The Clone Request Panel of replicaAI (frontend/src/app/page.tsx): the   *)
(* React component Home, its six useState cells, the async handler         *)
(* handleSubmit and the controls the component renders.                    *)
(*                                                                         *)
(* JavaScript runs each handler, and each continuation after an await, to  *)
(* completion; the component is a 'use client' component of the Next.js    *)
(* app router (React 18 or later), where all setState calls of one task    *)
(* are committed in one render.  So one action below is one such task:     *)
(* the part of handleSubmit before its first await, the part between the   *)
(* two awaits, and the part after the second await.  The promises are      *)
(* settled by the network, in actions of their own.                        *)
(***************************************************************************)
EXTENDS Integers, Sequences, FiniteSets, TLC

VARIABLES
    targetUrl,    \* useState('')            the URL input's value
    loading,      \* useState(false)
    clonedHtml,   \* useState<string|null>(null)   the Result
    error,        \* useState<string|null>(null)   the Error
    showRawHtml,  \* useState(false)         the Display Mode
    isDarkMode,   \* useState(false)         the Theme
    calls,        \* the invocations of handleSubmit that have not returned
    sent,         \* history: the requests handed to fetch(), in order
    submitted,    \* history: the input value at each accepted submission
    last,         \* history: the invocation of handleSubmit that returned last;
                  \* only its number is kept once the next one has started
    objectUrls,   \* the object URLs created and not revoked, each with its blob
    bodyChildren, \* the anchor elements appended to document.body and not removed
    saved,        \* history: what the last click of the download button made
                  \* the browser save, with the Result held at that click
    light         \* the light-only variant (src/app/page.tsx), given the same
                  \* events: its four useState cells, where its handleSubmit
                  \* is suspended, and the requests it handed to fetch()

vars == <<targetUrl, loading, clonedHtml, error, showRawHtml, isDarkMode,
          calls, sent, submitted, last, objectUrls, bodyChildren, saved, light>>

\* The browser state the download button works on.
domVars == <<objectUrls, bodyChildren, saved>>

(***************************************************************************)
(* Bounds of the model.                                                    *)
(***************************************************************************)
MaxSubmits == 2

(***************************************************************************)
(* JavaScript values: null, undefined and strings, tagged.                 *)
(***************************************************************************)
Null == [t |-> "null", v |-> ""]

Undefined == [t |-> "undefined", v |-> ""]

Str(s) == [t |-> "string", v |-> s]

\* JavaScript truthiness, as used by {error && ...} and {clonedHtml && ...}.
Truthy(x) == x.t = "string" /\ x.v # ""

(***************************************************************************)
(* The URL input: type="url" required.  The browser's constraint           *)
(* validation is given as a table over the inputs the model types.         *)
(***************************************************************************)
Inputs == {"", "not-a-url", "https://example.com", "http://b.test/p"}

WellFormedUrls == {"https://example.com", "http://b.test/p"}

FormValid_Required(u) == u # ""

\* required, and type="url"
FormValid(u) == u # "" /\ u \in WellFormedUrls

(***************************************************************************)
(* The request handleSubmit hands to fetch().                              *)
(***************************************************************************)
Endpoint == "http://localhost:8000/clone"

\* JSON.stringify({ target_url: u }) for a string u with nothing to escape.
JsonStringifyBody(u) == "{\"target_url\":\"" \o u \o "\"}"

FetchRequest_WrongField(u) ==
    [url |-> Endpoint, method |-> "POST", contentType |-> "application/json",
     body |-> "{\"url\":\"" \o u \o "\"}"]

FetchRequest(u) ==
    [url |-> Endpoint, method |-> "POST", contentType |-> "application/json",
     body |-> JsonStringifyBody(u)]

(***************************************************************************)
(* What the backend and the network can answer.                            *)
(***************************************************************************)
Statuses == {200, 299, 300, 404, 500}

\* Parsed JSON values: null, a string, or an object given as a record of
\* its fields.
JsonNull == [t |-> "null"]

JsonString(s) == [t |-> "string", v |-> s]

JsonObject(fields) == [t |-> "object", fields |-> fields]

Markup == "<html><body>Hi</body></html>"

\* A string with an unpaired surrogate, as JSON.parse yields for an
\* escape such as "\ud800" alone, and the string with U+FFFD in its place.
LoneSurrogateMarkup == "<p>[unpaired surrogate U+D800]</p>"

ReplacedMarkup == "<p>[U+FFFD]</p>"

JsonValues ==
    { JsonNull,
      JsonString("ok"),
      JsonObject([detail |-> Str("Not Found")]),
      JsonObject([cloned_html |-> Null]),
      JsonObject([cloned_html |-> Str("")]),
      JsonObject([cloned_html |-> Str(Markup)]),
      JsonObject([cloned_html |-> Str(LoneSurrogateMarkup)]),
      JsonObject([cloned_html |-> Str(Markup), elapsed |-> Str("1.2s")]) }

\* A response body: text that is not JSON, or the text of a JSON value.
NotJson == [t |-> "text"]

JsonBody(value) == [t |-> "json", value |-> value]

Bodies == {NotJson} \cup {JsonBody(value) : value \in JsonValues}

\* Thrown values.
ErrorObject(name, message) == [isError |-> TRUE, name |-> name, message |-> message]

TransportErrors == { ErrorObject("TypeError", "Failed to fetch") }

BodyReadErrors == { ErrorObject("TypeError", "network error") }

SyntaxErrorValue == ErrorObject("SyntaxError", "Unexpected token < in JSON at position 0")

NullPropertyError ==
    ErrorObject("TypeError", "Cannot read properties of null (reading 'cloned_html')")

\* A settled promise.
Resolved(value) == [state |-> "fulfilled", value |-> value]

Rejected(reason) == [state |-> "rejected", value |-> reason]

HttpResponse(status, body) == [status |-> status, body |-> body]

(***************************************************************************)
(* The pieces of handleSubmit.                                             *)
(***************************************************************************)
ResponseOk_Below400(response) == response.status >= 200 /\ response.status < 400

\* response.ok
ResponseOk(response) == response.status >= 200 /\ response.status <= 299

\* new Error(`HTTP error! status: ${response.status}`)
HttpError(response) ==
    ErrorObject("Error", "HTTP error! status: " \o ToString(response.status))

\* response.json(): the body text parsed, or a SyntaxError.
ParseJson(body) ==
    IF body.t = "json" THEN Resolved(body.value) ELSE Rejected(SyntaxErrorValue)

ResultField_Html == "html"

\* the field of the response handleSubmit reads
ResultField == "cloned_html"

\* data[name] for a parsed value that is not null
GetProp(data, name) ==
    IF data.t = "object" /\ name \in DOMAIN data.fields
    THEN data.fields[name]
    ELSE Undefined

\* err instanceof Error ? err.message : 'An error occurred'
CatchMessage(err) == IF err.isError THEN Str(err.message) ELSE Str("An error occurred")

SubmitError_Keep == error

\* setError(null) at the start of handleSubmit
SubmitError == Null

SubmitClonedHtml_Keep == clonedHtml

\* setClonedHtml(null) at the start of handleSubmit
SubmitClonedHtml == Null

\* !isDarkMode, the value the dark mode button sets
ThemeAfterToggle(b) == ~b

RawHtmlAfterToggle_ShowOnly(b) == TRUE

\* !showRawHtml, the value the raw HTML button sets
RawHtmlAfterToggle(b) == ~b

FinallyLoading_Forgotten == loading

\* finally { setLoading(false) }
FinallyLoading == FALSE

(***************************************************************************)
(* The pieces of the download button's handler.                            *)
(***************************************************************************)
\* The conversion of a string to a scalar value string, which the Blob
\* constructor applies to its string parts: every unpaired surrogate
\* becomes U+FFFD.  The blob holds the UTF-8 encoding of the outcome,
\* given here by the scalar value string it encodes.
ToUSVString(s) == IF s = LoneSurrogateMarkup THEN ReplacedMarkup ELSE s

BlobType_Plain == "text/plain"

\* { type: "text/html" }
BlobType == "text/html"

\* new Blob([html], { type: "text/html" })
NewBlob(html) == [type |-> BlobType, content |-> ToUSVString(html.v)]

\* URL.createObjectURL(blob): a fresh URL, registered with its blob
ObjectUrl(n) == "blob:http://localhost:3000/" \o ToString(n)

CreateObjectURL(urls, url, blob) == urls \cup {[url |-> url, blob |-> blob]}

\* a.download = "cloned_site.html"
DownloadName == "cloned_site.html"

\* document.createElement("a") with href and download set
Anchor(url) == [tag |-> "a", href |-> url, download |-> DownloadName]

\* document.body.appendChild(a)
AppendChild(children, a) == children \cup {a}

\* a.click(): the browser saves what the href names, under the name the
\* download attribute gives; a URL that names nothing saves nothing.
Click(a, urls) ==
    LET named == {e \in urls : e.url = a.href}
    IN  IF named = {}
        THEN <<>>
        ELSE LET e == CHOOSE x \in named : TRUE
             IN  <<[name |-> a.download, type |-> e.blob.type,
                    content |-> e.blob.content]>>

\* document.body.removeChild(a)
RemoveChild(children, a) == children \ {a}

RevokeObjectURL_Forgotten(urls, url) == urls

\* URL.revokeObjectURL(url)
RevokeObjectURL(urls, url) == {e \in urls : e.url # url}

(***************************************************************************)
(* What the component renders.                                             *)
(***************************************************************************)
InputDisabled_Never == FALSE

\* <input ... disabled={loading} />
InputDisabled == loading

SubmitDisabled_Never == FALSE

\* <button type="submit" disabled={loading}>
SubmitDisabled == loading

\* {error && (...)}
ErrorPanelVisible == Truthy(error)

\* {loading && (<Spinner/>)}
SpinnerVisible == loading

ResultViewVisible_NotNull == clonedHtml # Null

\* {clonedHtml && (...)}
ResultViewVisible == Truthy(clonedHtml)

(***************************************************************************)
(* The light-only variant, src/app/page.tsx: the same panel without the    *)
(* Theme, the Display Mode and the download button.  Its state is a        *)
(* record, and each of its handlers a function of that record and of the   *)
(* event it is given.                                                      *)
(***************************************************************************)
\* useState(''), useState(false), useState(null), useState(null)
L_Init ==
    [targetUrl |-> "", loading |-> FALSE, clonedHtml |-> Null, error |-> Null,
     pc |-> "idle", sent |-> <<>>]

\* <input ... disabled={loading} />
L_InputDisabled(l) == l.loading

\* <button type="submit" disabled={loading}>
L_SubmitDisabled(l) == l.loading

\* onChange={(e) => setTargetUrl(e.target.value)}
L_ChangeInput(l, u) ==
    IF L_InputDisabled(l) THEN l ELSE [l EXCEPT !.targetUrl = u]

\* fetch('http://localhost:8000/clone', { method: 'POST', ... })
L_FetchRequest(u) ==
    [url |-> "http://localhost:8000/clone", method |-> "POST",
     contentType |-> "application/json",
     body |-> "{\"target_url\":\"" \o u \o "\"}"]

\* handleSubmit up to its first await
L_Submit(l) ==
    IF L_SubmitDisabled(l) \/ ~FormValid(l.targetUrl)
    THEN l
    ELSE [l EXCEPT !.loading = TRUE, !.error = Null, !.clonedHtml = Null,
                   !.sent = Append(@, L_FetchRequest(l.targetUrl)),
                   !.pc = "fetch"]

L_ResponseOk_Only200(response) == response.status = 200

\* response.ok
L_ResponseOk(response) == response.status >= 200 /\ response.status <= 299

\* new Error(`HTTP error! status: ${response.status}`)
L_HttpError(response) ==
    ErrorObject("Error", "HTTP error! status: " \o ToString(response.status))

\* catch (err) { setError(...) } finally { setLoading(false) }
L_Catch(l, err) ==
    [l EXCEPT !.error = IF err.isError THEN Str(err.message)
                        ELSE Str("An error occurred"),
              !.loading = FALSE,
              !.pc = "idle"]

\* handleSubmit resumed after await fetch(...), the promise settled as given
L_AfterFetch(l, promise) ==
    IF l.pc # "fetch"
    THEN l
    ELSE IF promise.state = "rejected"
         THEN L_Catch(l, promise.value)
         ELSE IF ~L_ResponseOk(promise.value)
              THEN L_Catch(l, L_HttpError(promise.value))
              ELSE [l EXCEPT !.pc = "json"]

\* handleSubmit resumed after await response.json(), the promise settled
\* as given
L_AfterJson(l, promise) ==
    IF l.pc # "json"
    THEN l
    ELSE IF promise.state = "rejected"
         THEN L_Catch(l, promise.value)
         ELSE IF promise.value.t = "null"
              THEN L_Catch(l, NullPropertyError)
              ELSE [l EXCEPT !.clonedHtml = GetProp(promise.value, "cloned_html"),
                             !.loading = FALSE,
                             !.pc = "idle"]

(***************************************************************************)
(* Initial state: the useState defaults, no invocation, empty histories.   *)
(***************************************************************************)
NoCall == [id |-> 0]

Init ==
    /\ targetUrl = ""
    /\ loading = FALSE
    /\ clonedHtml = Null
    /\ error = Null
    /\ showRawHtml = FALSE
    /\ isDarkMode = FALSE
    /\ calls = {}
    /\ sent = <<>>
    /\ submitted = <<>>
    /\ last = NoCall
    /\ objectUrls = {}
    /\ bodyChildren = {}
    /\ saved = <<>>
    /\ light = L_Init

(***************************************************************************)
(* An invocation of handleSubmit: where it is suspended, the request it    *)
(* made, and the two promises it awaits.                                   *)
(***************************************************************************)
Pending == [state |-> "pending"]

NewCall(id, req) ==
    [id |-> id, pc |-> "fetch", req |-> req,
     fetched |-> Pending, jsonCalled |-> FALSE, parsed |-> Pending]

(***************************************************************************)
(* onChange of the URL input: setTargetUrl(e.target.value).                *)
(***************************************************************************)
ChangeInput(u) ==
    /\ ~InputDisabled
    /\ u # targetUrl
    /\ targetUrl' = u
    /\ UNCHANGED <<loading, clonedHtml, error, showRawHtml, isDarkMode,
                   calls, sent, submitted, last>>
    /\ light' = L_ChangeInput(light, u)
    /\ UNCHANGED domVars

(***************************************************************************)
(* The form's submit event: handleSubmit up to its first await.  The       *)
(* event is delivered only when the submit button is enabled and the       *)
(* form passes the browser's validation.                                   *)
(***************************************************************************)
Submit ==
    /\ ~SubmitDisabled
    /\ FormValid(targetUrl)
    /\ Len(sent) < MaxSubmits
    /\ loading' = TRUE
    /\ error' = SubmitError
    /\ clonedHtml' = SubmitClonedHtml
    /\ sent' = Append(sent, FetchRequest(targetUrl))
    /\ submitted' = Append(submitted, targetUrl)
    /\ calls' = calls \cup {NewCall(Len(sent) + 1, FetchRequest(targetUrl))}
    /\ last' = [id |-> last.id]
    /\ UNCHANGED <<targetUrl, showRawHtml, isDarkMode>>
    /\ light' = L_Submit(light)
    /\ UNCHANGED domVars

(***************************************************************************)
(* The network settles the promise of fetch(): a response of any status    *)
(* and body, or a transport failure.                                       *)
(***************************************************************************)
FetchResolve(c, status, body) ==
    /\ c \in calls
    /\ c.pc = "fetch"
    /\ calls' = (calls \ {c}) \cup
                {[c EXCEPT !.pc = "fetched",
                           !.fetched = Resolved(HttpResponse(status, body))]}
    /\ UNCHANGED <<targetUrl, loading, clonedHtml, error, showRawHtml,
                   isDarkMode, sent, submitted, last>>
    /\ UNCHANGED light
    /\ UNCHANGED domVars

FetchReject(c, err) ==
    /\ c \in calls
    /\ c.pc = "fetch"
    /\ calls' = (calls \ {c}) \cup
                {[c EXCEPT !.pc = "fetched", !.fetched = Rejected(err)]}
    /\ UNCHANGED <<targetUrl, loading, clonedHtml, error, showRawHtml,
                   isDarkMode, sent, submitted, last>>
    /\ UNCHANGED light
    /\ UNCHANGED domVars

(***************************************************************************)
(* catch (err) { setError(...) } finally { setLoading(false) }, and the    *)
(* handler returns.                                                        *)
(***************************************************************************)
CatchAndReturn(c, err) ==
    /\ error' = CatchMessage(err)
    /\ loading' = FinallyLoading
    /\ calls' = calls \ {c}
    /\ last' = [c EXCEPT !.pc = "returned"]
    /\ UNCHANGED <<targetUrl, clonedHtml, showRawHtml, isDarkMode, sent, submitted>>

(***************************************************************************)
(* handleSubmit resumes after await fetch(...): a rejection or a status    *)
(* that is not ok goes to the catch block; otherwise response.json() is    *)
(* called and awaited.                                                     *)
(***************************************************************************)
ResumeAfterFetch(c) ==
    /\ c \in calls
    /\ c.pc = "fetched"
    /\ IF c.fetched.state = "rejected"
       THEN CatchAndReturn(c, c.fetched.value)
       ELSE IF ~ResponseOk(c.fetched.value)
            THEN CatchAndReturn(c, HttpError(c.fetched.value))
            ELSE /\ calls' = (calls \ {c}) \cup
                             {[c EXCEPT !.pc = "json", !.jsonCalled = TRUE]}
                 /\ UNCHANGED <<targetUrl, loading, clonedHtml, error, showRawHtml,
                                isDarkMode, sent, submitted, last>>
    /\ light' = L_AfterFetch(light, c.fetched)
    /\ UNCHANGED domVars

(***************************************************************************)
(* The promise of response.json() settles: the body was read and parsed,   *)
(* or reading it failed.                                                   *)
(***************************************************************************)
JsonSettle(c) ==
    /\ c \in calls
    /\ c.pc = "json"
    /\ \E outcome \in {ParseJson(c.fetched.value.body)}
                      \cup {Rejected(e) : e \in BodyReadErrors} :
          calls' = (calls \ {c}) \cup
                   {[c EXCEPT !.pc = "parsed", !.parsed = outcome]}
    /\ UNCHANGED <<targetUrl, loading, clonedHtml, error, showRawHtml,
                   isDarkMode, sent, submitted, last>>
    /\ UNCHANGED light
    /\ UNCHANGED domVars

(***************************************************************************)
(* handleSubmit resumes after await response.json():                       *)
(* setClonedHtml(data.cloned_html), where reading a property of null       *)
(* throws; then the finally block.                                         *)
(***************************************************************************)
ResumeAfterJson(c) ==
    /\ c \in calls
    /\ c.pc = "parsed"
    /\ IF c.parsed.state = "rejected"
       THEN CatchAndReturn(c, c.parsed.value)
       ELSE IF c.parsed.value.t = "null"
            THEN CatchAndReturn(c, NullPropertyError)
            ELSE /\ clonedHtml' = GetProp(c.parsed.value, ResultField)
                 /\ loading' = FinallyLoading
                 /\ calls' = calls \ {c}
                 /\ last' = [c EXCEPT !.pc = "returned"]
                 /\ UNCHANGED <<targetUrl, error, showRawHtml, isDarkMode,
                                sent, submitted>>
    /\ light' = L_AfterJson(light, c.parsed)
    /\ UNCHANGED domVars

(***************************************************************************)
(* The dark mode button: setIsDarkMode(!isDarkMode).                       *)
(***************************************************************************)
ToggleTheme_DisabledWhileLoading ==
    /\ ~loading
    /\ isDarkMode' = ThemeAfterToggle(isDarkMode)
    /\ UNCHANGED <<targetUrl, loading, clonedHtml, error, showRawHtml,
                   calls, sent, submitted, last>>
    /\ UNCHANGED light
    /\ UNCHANGED domVars

ToggleTheme ==
    /\ isDarkMode' = ThemeAfterToggle(isDarkMode)
    /\ UNCHANGED <<targetUrl, loading, clonedHtml, error, showRawHtml,
                   calls, sent, submitted, last>>
    /\ UNCHANGED light
    /\ UNCHANGED domVars

(***************************************************************************)
(* The raw HTML button, rendered inside the result view:                   *)
(* setShowRawHtml(!showRawHtml).                                           *)
(***************************************************************************)
ToggleRawHtml ==
    /\ ResultViewVisible
    /\ showRawHtml' = RawHtmlAfterToggle(showRawHtml)
    /\ UNCHANGED <<targetUrl, loading, clonedHtml, error, isDarkMode,
                   calls, sent, submitted, last>>
    /\ UNCHANGED light
    /\ UNCHANGED domVars

(***************************************************************************)
(* The download button, rendered inside the result view: a blob of the     *)
(* Result, an object URL for it, an anchor appended, clicked and removed,  *)
(* and the URL revoked, all in one handler.                                *)
(***************************************************************************)
Download ==
    /\ ResultViewVisible
    /\ LET blob == NewBlob(clonedHtml)
           url == ObjectUrl(Cardinality(objectUrls) + 1)
           urls1 == CreateObjectURL(objectUrls, url, blob)
           a == Anchor(url)
           children1 == AppendChild(bodyChildren, a)
           files == Click(a, urls1)
           children2 == RemoveChild(children1, a)
           urls2 == RevokeObjectURL(urls1, url)
       IN  /\ objectUrls' = urls2
           /\ bodyChildren' = children2
           /\ saved' = [i \in 1..Len(files) |->
                           [file |-> files[i], result |-> clonedHtml]]
    /\ UNCHANGED <<targetUrl, loading, clonedHtml, error, showRawHtml, isDarkMode,
                   calls, sent, submitted, last>>
    /\ UNCHANGED light

Next ==
    \/ \E u \in Inputs : ChangeInput(u)
    \/ Submit
    \/ \E c \in calls, status \in Statuses, body \in Bodies : FetchResolve(c, status, body)
    \/ \E c \in calls, err \in TransportErrors : FetchReject(c, err)
    \/ \E c \in calls : ResumeAfterFetch(c)
    \/ \E c \in calls : JsonSettle(c)
    \/ \E c \in calls : ResumeAfterJson(c)
    \/ ToggleTheme
    \/ ToggleRawHtml
    \/ Download

Spec == Init /\ [][Next]_vars

\* The event loop runs the continuation of every settled promise.
FairSpec ==
    /\ Spec
    /\ WF_vars(\E c \in calls : ResumeAfterFetch(c))
    /\ WF_vars(\E c \in calls : ResumeAfterJson(c))

(***************************************************************************)
(* Helpers of the properties below.                                        *)
(***************************************************************************)
\* No invocation of handleSubmit is running and one has returned.
Settled == calls = {} /\ last.id # 0

\* The requests whose response, or whose response body, is still to come.
Outstanding == {c \in calls : c.pc \in {"fetch", "json"}}

AwaitingFetch == \E c \in calls : c.pc = "fetch"

\* The last invocation got a response (of any status).
GotResponse == Settled /\ last.fetched.state = "fulfilled"

\* The last invocation got a response whose status is outside 200..299.
GotNonOk == GotResponse /\ last.fetched.value.status \notin 200..299

\* The last invocation got a 2xx response and read its body to the end.
GotOkBody ==
    /\ GotResponse
    /\ last.fetched.value.status \in 200..299
    /\ last.jsonCalled
    /\ last.parsed = ParseJson(last.fetched.value.body)

BodyIsObjectWith(body, field) ==
    body.t = "json" /\ body.value.t = "object" /\ field \in DOMAIN body.value.fields

\* C1: Result and Error are never both non-empty.
C1_ResultErrorExclusive == ~(Truthy(clonedHtml) /\ Truthy(error))

\* C1 witness: a second submission has settled with a Result.
C1_Witness == Settled /\ last.id = 2 /\ Truthy(clonedHtml) /\ error = Null

\* C2: at most one request is outstanding, at most one invocation of
\* handleSubmit is running, and while there is one, loading is true, the
\* input and the submit control are disabled and no submission can start.
C2_SingleFlight ==
    /\ Cardinality(Outstanding) <= 1
    /\ Cardinality(calls) <= 1
    /\ calls # {} => /\ loading
                     /\ InputDisabled
                     /\ SubmitDisabled
                     /\ ~ENABLED Submit

\* C2 witness: the second request is outstanding, alone.
C2_Witness == Len(sent) = 2 /\ Cardinality(Outstanding) = 1 /\ loading

\* C3 as claimed: each of the three failure classes (transport failure, a
\* status outside 2xx, a 2xx body that is not JSON or is a JSON object
\* without cloned_html) settles with a non-empty Error and an empty Result.
C3_EveryFailureClassSetsError ==
    (/\ Settled
     /\ \/ last.fetched.state = "rejected"
        \/ GotNonOk
        \/ /\ GotOkBody
           /\ \/ last.fetched.value.body.t = "text"
              \/ /\ last.fetched.value.body.value.t = "object"
                 /\ ~BodyIsObjectWith(last.fetched.value.body, "cloned_html"))
    => (Truthy(error) /\ ~Truthy(clonedHtml))

\* C4: while a submission is running, Result and Error are both empty.
C4_ResetOnResubmit == calls # {} => (clonedHtml = Null /\ error = Null)

\* C4 witness: the first submission ended with a Result, which was
\* downloaded, and the second is running.
C4_Witness ==
    /\ calls # {}
    /\ Len(sent) = 2
    /\ last.id = 1
    /\ Len(saved) = 1
    /\ saved[1].result = Str(Markup)

\* The request of a running invocation is complete: a transport failure, a
\* response that is not ok, or a body read to the end or failed.
RequestCompleted ==
    \E c \in calls :
        \/ c.pc = "parsed"
        \/ c.pc = "fetched" /\ c.fetched.state = "rejected"
        \/ c.pc = "fetched" /\ c.fetched.state = "fulfilled"
                            /\ c.fetched.value.status \notin 200..299

\* C5: once the request has completed, with any outcome, loading becomes
\* false, and the input and the submit control are enabled again.
C5_LoadingEventuallyReset ==
    RequestCompleted ~> (calls = {} /\ ~loading /\ ~InputDisabled /\ ~SubmitDisabled)

\* C5 witness: a second submission ended in a transport failure and the
\* panel is not loading.
C5_Witness ==
    Settled /\ last.id = 2 /\ last.fetched.state = "rejected" /\ ~loading

\* C6: after a response of status c outside 200..299, Error is
\* "HTTP error! status: c", Result is empty, loading is false and
\* response.json() was never called.
C6_NonOkStatus ==
    GotNonOk =>
        /\ error = Str("HTTP error! status: " \o ToString(last.fetched.value.status))
        /\ last.fetched.value.status = 500 => error = Str("HTTP error! status: 500")
        /\ last.fetched.value.status = 300 => error = Str("HTTP error! status: 300")
        /\ clonedHtml = Null
        /\ ~loading
        /\ ~last.jsonCalled
        /\ last.parsed = Pending

\* C6 witness: a submission settled on a response of status 500.
C6_Witness == GotNonOk /\ last.fetched.value.status = 500

\* C7: after a 2xx response whose body is a JSON object with the string s
\* as cloned_html, Result is s, Error is empty and loading is false.
C7_SuccessStoresHtml ==
    (/\ GotOkBody
     /\ BodyIsObjectWith(last.fetched.value.body, "cloned_html")
     /\ last.fetched.value.body.value.fields["cloned_html"].t = "string")
    => /\ clonedHtml = last.fetched.value.body.value.fields["cloned_html"]
       /\ error = Null
       /\ ~loading

\* C7 witness: a 299 response with cloned_html and another field has
\* settled.
C7_Witness ==
    /\ GotOkBody
    /\ last.fetched.value.status = 299
    /\ last.fetched.value.body =
           JsonBody(JsonObject([cloned_html |-> Str(Markup), elapsed |-> Str("1.2s")]))
    /\ clonedHtml = Str(Markup)

\* C8: the spinner, the error panel and the result view are pairwise
\* mutually exclusive.
C8_ViewsExclusive ==
    /\ ~(SpinnerVisible /\ ErrorPanelVisible)
    /\ ~(SpinnerVisible /\ ResultViewVisible)
    /\ ~(ErrorPanelVisible /\ ResultViewVisible)

\* C8 witness: the body of a response has arrived and loading is not yet
\* reset.
C8_Witness ==
    /\ SpinnerVisible
    /\ \E c \in calls : c.pc = "parsed" /\ c.parsed.state = "fulfilled"
    /\ Len(sent) = 2

\* C9: the requests sent are, one for one and in order, the accepted
\* submissions: each a POST to the endpoint whose body carries the input
\* value of its submission as target_url; every request belongs to an
\* invocation that is running or has returned, so none is a retry.
C9_OneRequestPerSubmission ==
    /\ Len(sent) = Len(submitted)
    /\ Len(sent) = last.id + Cardinality(calls)
    /\ \A i \in 1..Len(sent) :
          /\ sent[i].method = "POST"
          /\ sent[i].url = "http://localhost:8000/clone"
          /\ sent[i].body = "{\"target_url\":\"" \o submitted[i] \o "\"}"
          /\ submitted[i] = "https://example.com"
                => sent[i].body = "{\"target_url\":\"https://example.com\"}"

\* C9 witness: two submissions, both failed, and two requests.
C9_Witness ==
    /\ Settled
    /\ last.id = 2
    /\ last.fetched.state = "rejected"
    /\ Len(sent) = 2
    /\ submitted[1] # submitted[2]

\* C10: while the response of a request has not come, the panel is in
\* flight, and every step in which no response comes leaves it so:
\* loading true, input and submit control disabled, the input's value,
\* Result and Error unchanged and empty.
C10_HangStaysInFlight ==
    /\ [](AwaitingFetch =>
            (loading /\ InputDisabled /\ SubmitDisabled
             /\ clonedHtml = Null /\ error = Null))
    /\ [][(AwaitingFetch /\ calls' = calls) =>
            (/\ loading'
             /\ InputDisabled'
             /\ SubmitDisabled'
             /\ targetUrl' = targetUrl
             /\ clonedHtml' = Null
             /\ error' = Null)]_vars

\* C10 witness: a request is unanswered and the Theme was toggled
\* meanwhile.
C10_Witness ==
    /\ AwaitingFetch
    /\ isDarkMode
    /\ Len(sent) = 2

\* C11: the Theme toggle is enabled in every state; a step that changes
\* the Theme changes nothing else, so no step of a submission (which
\* changes loading, Result, Error or the invocations) changes the Theme.
C11_ThemeIndependent ==
    /\ [](ENABLED ToggleTheme)
    /\ [][isDarkMode' # isDarkMode =>
            UNCHANGED <<targetUrl, loading, clonedHtml, error, showRawHtml,
                        calls, sent, submitted, last, objectUrls, bodyChildren, saved>>]_vars
    /\ [][(loading' # loading \/ calls' # calls \/ sent' # sent
           \/ clonedHtml' # clonedHtml \/ error' # error) =>
            isDarkMode' = isDarkMode]_vars

\* C11 witness: the Theme is dark while the first request is unanswered.
C11_Witness ==
    /\ isDarkMode
    /\ Len(sent) = 1
    /\ \E c \in calls : c.pc = "fetch" /\ c.id = 1

\* C12: the value either toggle sets, applied twice, is the value it
\* started from, and a step that changes one of the two flags changes no
\* other variable.
C12_DoubleToggle ==
    /\ [](/\ RawHtmlAfterToggle(RawHtmlAfterToggle(showRawHtml)) = showRawHtml
          /\ ThemeAfterToggle(ThemeAfterToggle(isDarkMode)) = isDarkMode
          /\ RawHtmlAfterToggle(showRawHtml) # showRawHtml
          /\ ThemeAfterToggle(isDarkMode) # isDarkMode)
    /\ [][showRawHtml' # showRawHtml =>
            (/\ showRawHtml' = RawHtmlAfterToggle(showRawHtml)
             /\ ENABLED ToggleRawHtml
             /\ UNCHANGED <<targetUrl, loading, clonedHtml, error, isDarkMode,
                            calls, sent, submitted, last, objectUrls, bodyChildren, saved>>)]_vars
    /\ [][isDarkMode' # isDarkMode =>
            (/\ isDarkMode' = ThemeAfterToggle(isDarkMode)
             /\ UNCHANGED <<targetUrl, loading, clonedHtml, error, showRawHtml,
                            calls, sent, submitted, last, objectUrls, bodyChildren, saved>>)]_vars

\* C12 witness: both flags are set, each by its toggle, with a Result shown.
C12_Witness == showRawHtml /\ isDarkMode /\ ResultViewVisible

\* C13 as claimed: every file saved is named cloned_site.html, has type
\* text/html and holds exactly the Result string held when the button was
\* clicked; the button is available only while Result is non-empty.
C13_DownloadExact ==
    /\ ENABLED Download => Truthy(clonedHtml)
    /\ \A i \in 1..Len(saved) :
          /\ Truthy(saved[i].result)
          /\ saved[i].file = [name |-> "cloned_site.html", type |-> "text/html",
                              content |-> saved[i].result.v]

\* C13 amended: the same, except that the content is the Result string
\* with every unpaired surrogate replaced by U+FFFD; it is exactly the
\* Result string when that string has no unpaired surrogate.
C13_DownloadWellFormed ==
    /\ ENABLED Download => Truthy(clonedHtml)
    /\ \A i \in 1..Len(saved) :
          /\ Truthy(saved[i].result)
          /\ saved[i].file.name = "cloned_site.html"
          /\ saved[i].file.type = "text/html"
          /\ saved[i].result.v # LoneSurrogateMarkup
                => saved[i].file.content = saved[i].result.v
          /\ saved[i].result.v = LoneSurrogateMarkup
                => saved[i].file.content = ReplacedMarkup

\* C13 witness: the Result of the second submission has been downloaded,
\* and it is a string without unpaired surrogates.
C13_Witness ==
    /\ Settled
    /\ last.id = 2
    /\ Len(saved) = 1
    /\ saved[1].result = clonedHtml
    /\ saved[1].file.content = Markup

\* C20: no object URL is left unrevoked and no anchor is left attached,
\* and a step that saves a file leaves loading, Result, Error, Display
\* Mode and Theme (and the input and the invocations) unchanged.
C20_DownloadReleases ==
    /\ [](objectUrls = {} /\ bodyChildren = {})
    /\ [][saved' # saved =>
            (/\ Len(saved') = 1
             /\ UNCHANGED <<targetUrl, loading, clonedHtml, error, showRawHtml,
                            isDarkMode, calls, sent, submitted, last>>)]_vars

\* C20 witness: the Results of two submissions have been downloaded, the
\* second in raw mode and dark theme.
C20_Witness ==
    /\ Len(saved) = 1
    /\ saved[1].result = clonedHtml
    /\ saved[1].result = Str(LoneSurrogateMarkup)
    /\ Settled
    /\ last.id = 2
    /\ showRawHtml
    /\ isDarkMode

\* C14: while the input holds a value that is not a well-formed URL, no
\* submission can start, and no step issues a request or changes loading,
\* Result, Error or the invocations.
C14_InvalidInputBlocksSubmit ==
    /\ [](targetUrl \notin {"https://example.com", "http://b.test/p"}
            => (~ENABLED Submit /\ ~loading /\ calls = {}))
    /\ [][(targetUrl \in {"", "not-a-url"}) =>
            (/\ sent' = sent
             /\ submitted' = submitted
             /\ calls' = calls
             /\ loading' = loading
             /\ clonedHtml' = clonedHtml
             /\ error' = error)]_vars

\* C14 witness: after a failed submission the input holds not-a-url.
C14_Witness ==
    /\ targetUrl = "not-a-url"
    /\ Len(sent) = 1
    /\ Settled
    /\ Truthy(error)

\* The panel state of the spec's state machine; "None" when the panel is
\* in none of its four states.
PanelState ==
    IF loading THEN "InFlight"
    ELSE IF Truthy(clonedHtml) THEN "SettledSuccess"
    ELSE IF Truthy(error) THEN "SettledError"
    ELSE IF Len(sent) = 0 THEN "Idle"
    ELSE "None"

\* C15 as claimed: the panel is always in one of the four states, every
\* step that changes the state is a submit into InFlight or a success or
\* failure out of InFlight, and the submit control is enabled in every
\* state but InFlight.
C15_FourStateMachine ==
    /\ [](PanelState \in {"Idle", "InFlight", "SettledSuccess", "SettledError"})
    /\ [](PanelState # "InFlight" => ~SubmitDisabled)
    /\ [][PanelState' # PanelState =>
            (\/ /\ PanelState \in {"Idle", "SettledSuccess", "SettledError"}
                /\ PanelState' = "InFlight"
                /\ Len(sent') = Len(sent) + 1
             \/ /\ PanelState = "InFlight"
                /\ PanelState' \in {"SettledSuccess", "SettledError"}
                /\ calls' = {})]_vars

\* C16: the request of every running invocation carries the present
\* value of the input, and a step that changes loading, the invocations
\* or the requests sent leaves the input unchanged.
C16_InputIsPayload ==
    /\ [](\A c \in calls :
            /\ c.req.body = "{\"target_url\":\"" \o targetUrl \o "\"}"
            /\ c.req = sent[c.id]
            /\ submitted[c.id] = targetUrl)
    /\ [][(loading' # loading \/ calls' # calls \/ sent' # sent
           \/ clonedHtml' # clonedHtml \/ error' # error)
            => targetUrl' = targetUrl]_vars

\* C16 witness: the body of the second response is awaited, for the
\* second URL.
C16_Witness ==
    /\ targetUrl = "http://b.test/p"
    /\ Len(sent) = 2
    /\ submitted[1] = "https://example.com"
    /\ \E c \in calls : c.pc = "json"

\* C17: the Display-Mode toggle is enabled exactly when Result is
\* non-empty; Display Mode is preview before the first submission; a step
\* that changes it happens with a Result shown and changes nothing else,
\* so no step of a submission changes it.
C17_DisplayModeOnlyByToggle ==
    /\ [](ENABLED ToggleRawHtml <=> Truthy(clonedHtml))
    /\ [](Len(sent) = 0 => ~showRawHtml)
    /\ [][showRawHtml' # showRawHtml =>
            (/\ Truthy(clonedHtml)
             /\ UNCHANGED <<targetUrl, loading, clonedHtml, error, isDarkMode,
                            calls, sent, submitted, last, objectUrls,
                            bodyChildren, saved>>)]_vars
    /\ [][(loading' # loading \/ calls' # calls \/ sent' # sent
           \/ clonedHtml' # clonedHtml \/ error' # error)
            => showRawHtml' = showRawHtml]_vars

\* C17 witness: raw mode was chosen on the first Result, and the body of
\* the second response, with a Result, has arrived.
C17_Witness ==
    /\ showRawHtml
    /\ ~ResultViewVisible
    /\ \E c \in calls :
          /\ c.id = 2
          /\ c.pc = "parsed"
          /\ c.parsed = Resolved(JsonObject([cloned_html |-> Str(Markup)]))

\* C18 as claimed: once a submission has settled, exactly one of Result
\* and Error is non-empty.
C18_SettledShowsOne ==
    Settled => (Truthy(clonedHtml) # Truthy(error))

\* C19: the light-only variant, given the same events, holds the same
\* input, loading, Result and Error as the dark-mode variant, has issued
\* the same requests, and enables the same controls.
C19_VariantsAgree ==
    /\ light.targetUrl = targetUrl
    /\ light.loading = loading
    /\ light.clonedHtml = clonedHtml
    /\ light.error = error
    /\ light.sent = sent
    /\ L_InputDisabled(light) = InputDisabled
    /\ L_SubmitDisabled(light) = SubmitDisabled
    /\ light.pc = "fetch" <=> (\E c \in calls : c.pc \in {"fetch", "fetched"})
    /\ light.pc = "json" <=> (\E c \in calls : c.pc \in {"json", "parsed"})

\* C19 witness: both variants show the Result of a 299 response to their
\* second submission.
C19_Witness ==
    /\ GotResponse
    /\ last.id = 2
    /\ last.fetched.value.status = 299
    /\ light.clonedHtml = Str(Markup)
    /\ Len(light.sent) = 2
    /\ isDarkMode
    /\ showRawHtml

====
